---- MODULE Spec2Model ----
(***************************************************************************)
(* The Blog List component (src/src/js/BlogList.js): data acquisition with *)
(* a 10-minute localStorage cache and a 3-attempt retry loop, and the      *)
(* sort / filter / search handlers working on items and filteredItems.     *)
(*                                                                         *)
(* JavaScript values are modelled as follows.                              *)
(*   - a string is a sequence of one-character strings, so that            *)
(*     toLowerCase, trim, includes and the regular expressions of          *)
(*     parseMinutes are computed character by character;                   *)
(*   - a field of a blog entry is a tagged value Str(s), Num(n) or Undef   *)
(*     (the property is missing);                                          *)
(*   - a number that takes part in a comparison is a record with kind      *)
(*     "num", "nan" (NaN) or "max" (Number.MAX_SAFE_INTEGER, which does    *)
(*     not fit TLC's integers);                                            *)
(*   - the clock is in milliseconds since an arbitrary origin.             *)
(***************************************************************************)
EXTENDS Integers, Sequences, FiniteSets, TLC

VARIABLES
    now,            \* Date.now(), ms
    storage,        \* localStorage: what is kept under "blogs_cache_v1"
    dom,            \* which of the optional elements the container holds
    pc,             \* where init() / fetchData() stands
    attempt,        \* fetchData: the loop variable
    lastError,      \* fetchData: lastError (message), "" when unset
    backoff,        \* deadline of the pending backoff timer, -1 when none
    items,          \* this.items
    filteredItems,  \* this.filteredItems
    page,           \* this.page
    listening,      \* setupEventListeners() has run
    loadingHidden,  \* the loading indicator carries the class "hidden"
    errorHidden,    \* the error container carries the class "hidden"
    errorText,      \* the error container's textContent
    listHTML,       \* the list container's innerHTML
    filterValue,    \* the filter select's value
    searchValue,    \* the search input's value
    debounce,       \* deadline of the pending debounce timer, -1 when none
    initResult,     \* the promise init() returned: pending, resolved, rejected
    log,            \* history: the network attempts, in order
    readAt,         \* history: the clock when fetchData read the cache, -1 before
    last,           \* history: the last handler that ran, and its input
    sortValue,      \* the sort select's value
    timers,         \* deadlines of the pending debounce timers
    inputAt,        \* history: time of the latest input event not yet searched, -1 when none
    peer,           \* a second BlogList instance over the same storage: its fetchData
    dragDrop,       \* the DragDrop instance and the items and zones of its document
    cache,          \* history: when the envelope in storage was written, and the hits since
    nav             \* the Navigation instance, the toggle and the nav list of its document

vars == <<now, storage, dom, pc, attempt, lastError, backoff, items,
          filteredItems, page, listening, loadingHidden, errorHidden,
          errorText, listHTML, filterValue, searchValue, debounce,
          initResult, log, readAt, last,
          sortValue,
          timers,
          inputAt,
          peer,
          dragDrop,
          cache,
          nav>>

(***************************************************************************)
(* Strings                                                                 *)
(***************************************************************************)
UpperLetters == <<"A","B","C","D","E","F","G","H","I","J","K","L","M",
                  "N","O","P","Q","R","S","T","U","V","W","X","Y","Z">>

LowerLetters == <<"a","b","c","d","e","f","g","h","i","j","k","l","m",
                  "n","o","p","q","r","s","t","u","v","w","x","y","z">>

Digits == <<"0","1","2","3","4","5","6","7","8","9">>

ToLowerChar(c) ==
    IF \E i \in 1..26 : UpperLetters[i] = c
    THEN LowerLetters[CHOOSE i \in 1..26 : UpperLetters[i] = c]
    ELSE c

toLowerCase(s) == [i \in 1..Len(s) |-> ToLowerChar(s[i])]

IsSpace(c) == c \in {" ", "\t", "\n"}

IsDigit(c) == \E i \in 1..10 : Digits[i] = c

DigitValue(c) == (CHOOSE i \in 1..10 : Digits[i] = c) - 1

\* String.prototype.trim: the whitespace at both ends is dropped.
trim(s) ==
    LET keep == {i \in 1..Len(s) : ~IsSpace(s[i])}
    IN  IF keep = {} THEN <<>>
        ELSE SubSeq(s, CHOOSE i \in keep : \A j \in keep : i <= j,
                       CHOOSE i \in keep : \A j \in keep : j <= i)

\* String.prototype.includes: q occurs in s as a substring.
includes(s, q) ==
    \E i \in 0..(Len(s) - Len(q)) : SubSeq(s, i + 1, i + Len(q)) = q

\* Array.prototype.includes on an array of strings.
arrayIncludes(arr, x) == \E i \in 1..Len(arr) : arr[i] = x

(***************************************************************************)
(* Values of an entry's fields                                             *)
(***************************************************************************)
Str(s) == [t |-> "string", s |-> s, n |-> 0]

Num(n) == [t |-> "number", s |-> <<>>, n |-> n]

Undef == [t |-> "undefined", s |-> <<>>, n |-> 0]

\* The decimal digits of a natural number (Number.prototype.toString).
RECURSIVE NatToString(_)
NatToString(n) ==
    IF n < 10 THEN <<Digits[n + 1]>>
    ELSE NatToString(n \div 10) \o <<Digits[(n % 10) + 1]>>

NumberToString(n) ==
    IF n < 0 THEN <<"-">> \o NatToString(-n) ELSE NatToString(n)

\* (v || "").toString(): a missing value, "" and 0 are falsy.
OrEmptyToString(v) ==
    CASE v.t = "string" -> v.s
      [] v.t = "number" -> IF v.n = 0 THEN <<>> ELSE NumberToString(v.n)
      [] OTHER -> <<>>

\* The longest array of entries of the model.
MaxLen == 4

(***************************************************************************)
(* Blog entries.  An array of entries is a sequence of indices into        *)
(* Catalog: the index stands for the object, Catalog[i] for its fields.    *)
(***************************************************************************)
Tags(a) == [isArray |-> TRUE, a |-> a]

NoTags == [isArray |-> FALSE, a |-> <<>>]

Entry(title, content, category, tags, rt, date) ==
    [title |-> title, content |-> content, category |-> category,
     tags |-> tags, reading_time |-> rt, published_date |-> date]

Catalog ==
    << Entry(Str(<<"R","e","a","c","t"," ","B","a","s","i","c","s">>),
             Str(<<"I","n","t","r","o">>),
             Str(<<"G","a","d","g","e","t","s">>),
             Tags(<< <<"t","e","c","h">> >>),
             Str(<<"5"," ","m","i","n"," ","r","e","a","d">>),
             Str(<<"2","0","2","4","-","0","3","-","0","1">>)),
       Entry(Str(<<"G","o">>),
             Str(<<"o","n"," ","R","E","A","C","T">>),
             Str(<<"s","t","a","r","t","u","p","s">>),
             Tags(<< <<"G","a","d","g","e","t","s">> >>),
             Str(<<"1","2">>),
             Str(<<"2","0","2","4","-","0","1","-","1","5">>)),
       Entry(Str(<<"V","u","e">>),
             Str(<<"t","i","p","s">>),
             Str(<<"W","r","i","t","i","n","g">>),
             NoTags,
             Num(7),
             Str(<<"2","0","2","4","-","0","2","-","1","0">>)),
       Entry(Undef,
             Str(<<"n","o","t","e","s">>),
             Undef,
             Tags(<< <<"n","e","w","s">>, <<"G","A","D","G","E","T","S">> >>),
             Str(<<"n","o"," ","t","i","m","e">>),
             Str(<<"n","/","a">>)) >>

(***************************************************************************)
(* Numbers that take part in a comparison                                  *)
(***************************************************************************)
JSNumber(n) == [k |-> "num", v |-> n]

NaN == [k |-> "nan", v |-> 0]

\* Number.MAX_SAFE_INTEGER (2^53 - 1): larger than every number of the model.
MAX_SAFE_INTEGER == [k |-> "max", v |-> 0]

Sign(n) == IF n < 0 THEN -1 ELSE IF n > 0 THEN 1 ELSE 0

\* a - b, as far as a sort needs it: NaN, or the sign of the difference.
Minus(a, b) ==
    CASE a.k = "nan" \/ b.k = "nan" -> NaN
      [] a.k = "max" /\ b.k = "max" -> JSNumber(0)
      [] a.k = "max" -> JSNumber(1)
      [] b.k = "max" -> JSNumber(-1)
      [] OTHER -> JSNumber(Sign(a.v - b.v))

\* The value of a string of decimal digits.
RECURSIVE DigitsValue(_)
DigitsValue(s) ==
    IF s = <<>> THEN 0
    ELSE 10 * DigitsValue(SubSeq(s, 1, Len(s) - 1)) + DigitValue(s[Len(s)])

\* parseInt(x, 10) of a match group: a run of digits, or undefined.
parseInt(x) ==
    IF x.t = "string" /\ x.s # <<>> /\ \A i \in 1..Len(x.s) : IsDigit(x.s[i])
    THEN JSNumber(DigitsValue(x.s))
    ELSE NaN

(***************************************************************************)
(* parseMinutes and its two regular expressions                            *)
(***************************************************************************)
Null == [isNull |-> TRUE, whole |-> Undef, group1 |-> Undef]

Match(w, g) == [isNull |-> FALSE, whole |-> Str(w), group1 |-> g]

\* The last index of the run of digits that holds index i.
RunEnd(s, i) ==
    CHOOSE j \in i..Len(s) :
        /\ \A x \in i..j : IsDigit(s[x])
        /\ (j = Len(s) \/ ~IsDigit(s[j + 1]))

\* The lookahead (?=\s*min), case-insensitive, at index k.
FollowedByMin(s, k) ==
    \E n \in 0..(Len(s) - k + 1) :
        /\ \A x \in k..(k + n - 1) : IsSpace(s[x])
        /\ k + n + 2 <= Len(s)
        /\ toLowerCase(SubSeq(s, k + n, k + n + 2)) = <<"m", "i", "n">>

\* val.match(/(\d+)(?=\s*min)/i): the leftmost digits that a "min" follows.
\* A shorter run of the same digits is followed by a digit, never by "min".
MatchDigitsBeforeMin(s) ==
    LET starts == {i \in 1..Len(s) :
                      IsDigit(s[i]) /\ FollowedByMin(s, RunEnd(s, i) + 1)}
    IN  IF starts = {} THEN Null
        ELSE LET i == CHOOSE x \in starts : \A y \in starts : x <= y
                 g == SubSeq(s, i, RunEnd(s, i))
             IN  Match(g, Str(g))

\* val.match(/\d+/): the first run of digits; the pattern has no group, so
\* the match holds no element at index 1.
MatchDigits(s) ==
    LET starts == {i \in 1..Len(s) : IsDigit(s[i])}
    IN  IF starts = {} THEN Null
        ELSE LET i == CHOOSE x \in starts : \A y \in starts : x <= y
             IN  Match(SubSeq(s, i, RunEnd(s, i)), Undef)

parseMinutes(val) ==
    CASE val.t = "number" -> JSNumber(val.n)
      [] val.t = "string" ->
            LET first == MatchDigitsBeforeMin(val.s)
                m == IF first.isNull THEN MatchDigits(val.s) ELSE first
            IN  IF m.isNull THEN MAX_SAFE_INTEGER ELSE parseInt(m.group1)
      [] OTHER -> MAX_SAFE_INTEGER

(***************************************************************************)
(* new Date(published_date), in days since 1970-01-01 (the model's dates   *)
(* are date-only ISO strings, which are UTC midnights; the milliseconds    *)
(* do not fit TLC's integers and only the sign of a difference is used).   *)
(***************************************************************************)
DaysFromCivil(y, m, d) ==
    LET yy == IF m <= 2 THEN y - 1 ELSE y
        era == yy \div 400
        yoe == yy - era * 400
        mp == IF m > 2 THEN m - 3 ELSE m + 9
        doy == (153 * mp + 2) \div 5 + d - 1
        doe == yoe * 365 + yoe \div 4 - yoe \div 100 + doy
    IN  era * 146097 + doe - 719468

IsIsoDate(s) ==
    /\ Len(s) = 10
    /\ s[5] = "-" /\ s[8] = "-"
    /\ \A i \in {1, 2, 3, 4, 6, 7, 9, 10} : IsDigit(s[i])
    /\ DigitsValue(SubSeq(s, 6, 7)) \in 1..12
    /\ DigitsValue(SubSeq(s, 9, 10)) \in 1..31

NewDate(v) ==
    CASE v.t = "string" /\ IsIsoDate(v.s) ->
            JSNumber(DaysFromCivil(DigitsValue(SubSeq(v.s, 1, 4)),
                                   DigitsValue(SubSeq(v.s, 6, 7)),
                                   DigitsValue(SubSeq(v.s, 9, 10))))
      [] v.t = "number" -> JSNumber(v.n \div 86400000)
      [] OTHER -> NaN

(***************************************************************************)
(* Array.prototype.sort                                                    *)
(***************************************************************************)
\* String.prototype.localeCompare on lower-cased ASCII strings.
RECURSIVE localeCompare(_, _)
localeCompare(a, b) ==
    CASE a = <<>> /\ b = <<>> -> 0
      [] a = <<>> -> -1
      [] b = <<>> -> 1
      [] a[1] = b[1] -> localeCompare(Tail(a), Tail(b))
      [] OTHER ->
            LET rank(c) == IF \E i \in 1..26 : LowerLetters[i] = c
                           THEN 100 + (CHOOSE i \in 1..26 : LowerLetters[i] = c)
                           ELSE IF IsDigit(c) THEN 50 + DigitValue(c)
                           ELSE IF c = " " THEN 1 ELSE 10
            IN  Sign(rank(a[1]) - rank(b[1]))

\* What the comparator of the criterion `by` takes from the entry `it`:
\* new Date(published_date), parseMinutes(reading_time), or
\* (category || "").toString().toLowerCase().
SortKey(by, it) ==
    CASE by = "date" -> NewDate(Catalog[it].published_date)
      [] by = "reading_time" -> parseMinutes(Catalog[it].reading_time)
      [] by = "category" -> toLowerCase(OrEmptyToString(Catalog[it].category))
      [] OTHER -> 0

\* The comparators with a default one that answers -1 in place of 0.
CompareKeys_DefaultMinusOne(by, ka, kb) ==
    CASE by = "date" -> Minus(kb, ka)
      [] by = "reading_time" -> Minus(ka, kb)
      [] by = "category" -> JSNumber(localeCompare(ka, kb))
      [] OTHER -> JSNumber(-1)

\* The comparator's answer for two entries, from what it takes from each:
\* b - a for the dates, a - b for the minutes, localeCompare for the
\* categories, 0 for any other criterion.
CompareKeys(by, ka, kb) ==
    CASE by = "date" -> Minus(kb, ka)
      [] by = "reading_time" -> Minus(ka, kb)
      [] by = "category" -> JSNumber(localeCompare(ka, kb))
      [] OTHER -> JSNumber(0)

\* The comparator onSortChange hands to sort, for the criterion `by`.
Comparator(by, a, b) == CompareKeys(by, SortKey(by, a), SortKey(by, b))

\* What sort makes of a comparator's result: NaN counts as +0.
SortCompare(r) == IF r.k = "nan" THEN 0 ELSE Sign(r.v)

\* The permutations of 1..n, for every length n of an array of the model.
IndexOrders ==
    UNION { {p \in [1..n -> 1..n] : \A i, j \in 1..n : p[i] = p[j] => i = j} :
            n \in 0..MaxLen }

\* What sort makes of the comparator's answers for the entries of the
\* catalog under the criterion `by`: row a, column b.  It is Comparator,
\* with what it takes from each entry computed once; <<>> \o f is the
\* function f as a tuple.
Compared(by) ==
    LET N == Len(Catalog)
        k == <<>> \o [it \in 1..N |-> SortKey(by, it)]
    IN  <<>> \o [a \in 1..N |->
            <<>> \o [b \in 1..N |-> SortCompare(CompareKeys(by, k[a], k[b]))]]

\* Stable insertion of s[n] into the sorted prefix, as index sequences; c is
\* Compared(by).
RECURSIVE InsertionOrder(_, _, _)
InsertionOrder(s, c, n) ==
    IF n = 0 THEN <<>>
    ELSE LET prev == InsertionOrder(s, c, n - 1)
             after == {j \in 1..Len(prev) : c[s[n]][s[prev[j]]] >= 0}
             pos == IF after = {} THEN 0
                    ELSE CHOOSE j \in after : \A x \in after : x <= j
         IN  SubSeq(prev, 1, pos) \o <<n>> \o SubSeq(prev, pos + 1, Len(prev))

\* The orders a stable sort can leave: neighbours are never out of order, and
\* neighbours that compare equal keep their original order.  A consistent
\* comparator leaves exactly one such order.  With a comparator that is not
\* consistent (one that answers NaN) the order is implementation-defined;
\* the orders kept are those a stable sort can produce.
SortOrders(s, by) ==
    LET n == Len(s)
        c == Compared(by)
        ok(p) == \A i \in 1..(n - 1) :
                     \/ c[s[p[i]]][s[p[i + 1]]] < 0
                     \/ (c[s[p[i]]][s[p[i + 1]]] = 0 /\ p[i] < p[i + 1])
    IN  {p \in IndexOrders : Len(p) = n /\ ok(p)}
            \cup {InsertionOrder(s, c, n)}

SortOutcomes(s, by) ==
    {[i \in 1..Len(s) |-> s[p[i]]] : p \in SortOrders(s, by)}

(***************************************************************************)
(* The inputs of the model                                                 *)
(***************************************************************************)
\* The response bodies the endpoint can answer with (arrays of entries).
NetPayloads == { <<>>, <<1, 2>> }

ViewPayloads == { <<1, 2, 3, 4>>, <<4, 3, 2, 1>>, <<3, 1>> }

\* A payload of more entries than a page holds, and the empty one.  The
\* entries 1 and 3 are compared consistently under every criterion, so a
\* sort of the long payload has one outcome.
LongPayload == <<3, 1, 3, 1, 1, 3, 1, 3, 1, 1, 3, 1>>

PagePayloads == { LongPayload, <<>> }

\* The entries of the envelope found in storage at start.
CachedData == <<2, 1>>

\* What the user can pick in the filter select, type in the search input and
\* pick in the sort select.
FilterValues == { <<>>, <<"G","a","d","g","e","t","s">>,
                  <<"S","t","a","r","t","u","p","s">> }

SearchValues == { <<>>, <<" ">>, <<" ","R","e","a","c","t">> }

SortValues == { "", "date", "reading_time", "category", "title" }

(***************************************************************************)
(* The clock and the bounds of the model                                   *)
(***************************************************************************)
InitNow == 1000000

TickStep == 300

MaxElapsed == 1800

ViewElapsed == 600

\* The clock of the debounce specification: its step, shorter than the
\* debounce delay, and how long it runs.
DebounceStep == 125

DebounceElapsed == 750

MaxNow == InitNow + MaxElapsed

(***************************************************************************)
(* localStorage and JSON                                                   *)
(***************************************************************************)
cacheTtlMs == 10 * 60 * 1000

maxAttempts == 3

perPage == 10

StoredText(kind) ==
    [kind |-> kind, isArray |-> FALSE, data |-> <<>>, timestamp |-> Undef]

\* An envelope written without its timestamp.
JSONStringify_NoTimestamp(data, timestamp) ==
    [kind |-> "object", isArray |-> TRUE, data |-> data, timestamp |-> Undef]

\* JSON.stringify({ data, timestamp }) for an array data: a property whose
\* value is undefined is left out, which is how Undef reads back.
JSONStringify(data, timestamp) ==
    [kind |-> "object", isArray |-> TRUE, data |-> data, timestamp |-> timestamp]

\* localStorage.getItem throws when the storage is denied to the page.
GetItemThrows(text) == text.kind = "denied"

\* `if (cached)`: null (no entry) and "" are falsy.
Truthy(text) == text.kind \notin {"absent", "empty"}

JSONParseThrows(text) == text.kind = "unparsable"

\* Mutants of CacheFresh: the comparison turned round, and <= for <.
CacheFresh_Reversed(timestamp, t) ==
    timestamp.t = "number" /\ t - timestamp.n > cacheTtlMs

CacheFresh_Inclusive(timestamp, t) ==
    timestamp.t = "number" /\ t - timestamp.n <= cacheTtlMs

\* Date.now() - parsed.timestamp < cacheTtlMs; a missing timestamp gives NaN,
\* and every comparison with NaN is false.
CacheFresh(timestamp, t) ==
    timestamp.t = "number" /\ t - timestamp.n < cacheTtlMs

\* Lines 75-91: TRUE when fetchData adopts the cached data and returns.
CacheHit(text, t) ==
    /\ ~GetItemThrows(text)
    /\ Truthy(text)
    /\ ~JSONParseThrows(text)
    /\ text.kind = "object"
    /\ text.isArray
    /\ CacheFresh(text.timestamp, t)

\* What the storage holds at start.
InitialStorage ==
    { StoredText("absent"), StoredText("empty"), StoredText("unparsable"),
      StoredText("null"), StoredText("denied"),
      [kind |-> "object", isArray |-> FALSE, data |-> <<>>,
       timestamp |-> Num(InitNow)],
      JSONStringify(CachedData, Undef) }
    \cup { JSONStringify(CachedData, Num(ts)) :
             ts \in { InitNow, InitNow + TickStep,
                      InitNow - cacheTtlMs + TickStep,
                      InitNow - cacheTtlMs,
                      InitNow - cacheTtlMs - TickStep } }

(***************************************************************************)
(* The container's elements                                                *)
(***************************************************************************)
Dom(list, loading, error, sort, filter, search) ==
    [listContainer |-> list, loadingIndicator |-> loading,
     errorContainer |-> error, sortSelect |-> sort,
     filterSelect |-> filter, searchInput |-> search]

AllPresent == Dom(TRUE, TRUE, TRUE, TRUE, TRUE, TRUE)

DomConfigs ==
    { AllPresent,
      Dom(FALSE, TRUE, TRUE, TRUE, TRUE, TRUE),
      Dom(TRUE, TRUE, TRUE, TRUE, FALSE, TRUE),
      Dom(TRUE, FALSE, FALSE, FALSE, FALSE, FALSE) }

(***************************************************************************)
(* render, showLoading, hideLoading, showError                             *)
(***************************************************************************)
EmptyList == [articles |-> <<>>, noResults |-> FALSE]

\* render() with slice(1, end): the first entry is left out.
RenderHTML_SkipsFirst(fi, pg) ==
    LET end == pg * perPage
        slice == SubSeq(fi, 2, IF Len(fi) < end THEN Len(fi) ELSE end)
    IN  IF Len(slice) = 0
        THEN [articles |-> <<>>, noResults |-> TRUE]
        ELSE [articles |-> slice, noResults |-> FALSE]

\* render() without the slice: every entry of the view is shown.
RenderHTML_Unsliced(fi, pg) ==
    IF Len(fi) = 0
    THEN [articles |-> <<>>, noResults |-> TRUE]
    ELSE [articles |-> fi, noResults |-> FALSE]

\* render(): one article per entry of the slice, or the placeholder.
RenderHTML(fi, pg) ==
    LET end == pg * perPage
        slice == SubSeq(fi, 1, IF Len(fi) < end THEN Len(fi) ELSE end)
    IN  IF Len(slice) = 0
        THEN [articles |-> <<>>, noResults |-> TRUE]
        ELSE [articles |-> slice, noResults |-> FALSE]

\* render() throws a TypeError when the container has no list element.
RenderThrows == ~dom.listContainer

RenderError == "Cannot set properties of null (setting 'innerHTML')"

\* The list element after render() ran with the new view.
Rendered(fi, pg) == IF RenderThrows THEN listHTML ELSE RenderHTML(fi, pg)

\* The class "hidden" of the loading indicator after showLoading().
showLoading(hidden) == IF dom.loadingIndicator THEN FALSE ELSE hidden

\* Mutant of hideLoading: the class is not added.
hideLoading_Skipped(hidden) == hidden

\* The class "hidden" of the loading indicator after hideLoading().
hideLoading(hidden) == IF dom.loadingIndicator THEN TRUE ELSE hidden

\* The error container after showError(err): its class "hidden" and its text.
showError(message) ==
    IF ~dom.errorContainer
    THEN [hidden |-> errorHidden, text |-> errorText]
    ELSE [hidden |-> FALSE, text |-> "Error: " \o message]

(***************************************************************************)
(* fetchData: the retry loop                                               *)
(***************************************************************************)
\* The errors a failed attempt can end with.
NotOkError == "Failed to fetch blogs"

NotArrayError == "Unexpected API response"

TransportErrors == { "Failed to fetch" }

JsonErrors == { "Unexpected token < in JSON at position 0" }

\* Mutant of RetryAllowed: <= for <.
RetryAllowed_Inclusive(a) == a <= maxAttempts

\* Mutant of BackoffDelay: a constant delay.
BackoffDelay_Constant(a) == 300

\* Mutant of LastErrorAfter: the first error is kept.
LastErrorAfter_First(previous, err) == IF previous = "" THEN err ELSE previous

\* `attempt < maxAttempts`: a backoff and another attempt follow the failure.
RetryAllowed(a) == a < maxAttempts

\* 300 * attempt
BackoffDelay(a) == 300 * a

\* `lastError = err`
LastErrorAfter(previous, err) == err

\* History of the envelope in storage: when it was written, -1 for what the
\* storage held at the start, and how often it was adopted since.
NoCache == [writtenAt |-> -1, reads |-> 0]

\* setItem has stored an envelope at the time t.
Written(t) == [writtenAt |-> t, reads |-> 0]

\* fetchData() has adopted the envelope once more.
Adopted(c) == [c EXCEPT !.reads = @ + 1]

\* The catch block of the loop (lines 112-120), for an attempt that failed
\* with the error `message`.
AttemptFails(message) ==
    /\ lastError' = LastErrorAfter(lastError, message)
    /\ log' = [log EXCEPT !.failures = @ + 1, !.failedAt = now,
                          !.failure = message]
    /\ IF RetryAllowed(attempt)
       THEN /\ backoff' = now + BackoffDelay(attempt)
            /\ pc' = "backoff"
       ELSE /\ backoff' = backoff
            /\ pc' = "threw"
    /\ UNCHANGED <<now, storage, dom, attempt, items, filteredItems, page,
                   listening, loadingHidden, errorHidden, errorText, listHTML,
                   filterValue, searchValue, debounce, initResult, readAt, last,
                   sortValue, timers, inputAt, peer, dragDrop, cache, nav>>

\* A hit that stamps the envelope anew.
StorageAfterHit_Refreshed(text, t) == [text EXCEPT !.timestamp = Num(t)]

\* Lines 84-86 assign and return: a hit calls no setItem, the stored text
\* is as before.
StorageAfterHit(text, t) == text

\* init() up to the first await: showLoading(), then fetchData() reads the
\* cache and either adopts it and returns, or sends the first request.
Start ==
    /\ pc = "new"
    /\ loadingHidden' = showLoading(loadingHidden)
    /\ readAt' = now
    /\ IF CacheHit(storage, now)
       THEN /\ items' = storage.data
            /\ filteredItems' = storage.data
            /\ pc' = "fetched"
            /\ storage' = StorageAfterHit(storage, now)
            /\ cache' = Adopted(cache)
            /\ UNCHANGED <<attempt, log>>
       ELSE /\ attempt' = 1
            /\ log' = [log EXCEPT !.requests = @ + 1, !.startedAt = now]
            /\ pc' = "fetch"
            /\ UNCHANGED <<storage, items, filteredItems, cache>>
    /\ UNCHANGED <<now, dom, lastError, backoff, page, listening,
                   errorHidden, errorText, listHTML, filterValue, searchValue,
                   debounce, initResult, last, sortValue, timers, inputAt,
                   peer, dragDrop, nav>>

\* fetch() rejects: a transport error.
FetchRejects ==
    /\ pc = "fetch"
    /\ \E message \in TransportErrors : AttemptFails(message)

\* fetch() resolves with a response whose status is not a success.
FetchNotOk ==
    /\ pc = "fetch"
    /\ AttemptFails(NotOkError)

\* fetch() resolves with a success status: res.json() is awaited.
FetchOk ==
    /\ pc = "fetch"
    /\ pc' = "json"
    /\ UNCHANGED <<now, storage, dom, attempt, lastError, backoff, items,
                   filteredItems, page, listening, loadingHidden, errorHidden,
                   errorText, listHTML, filterValue, searchValue, debounce,
                   initResult, log, readAt, last, sortValue, timers, inputAt,
                   peer, dragDrop, cache, nav>>

\* res.json() rejects: the body is no JSON text.
JsonRejects ==
    /\ pc = "json"
    /\ \E message \in JsonErrors : AttemptFails(message)

\* The body is JSON, but no array.
JsonNotArray ==
    /\ pc = "json"
    /\ AttemptFails(NotArrayError)

\* A storage error that escapes fetchData.
AfterSetItem_Escapes(threw) == IF threw THEN "threw" ELSE "fetched"

\* A loop that goes on after the write in place of returning.
AfterSetItem_Continues(threw) == "backoff"

\* try { localStorage.setItem(...) } catch (_) {} return: where fetchData
\* stands after the write, whether setItem threw or not.
AfterSetItem(threw) == "fetched"

\* The body is the array `data`: it is adopted and the envelope is written;
\* setItem may throw (quota, denied storage), which is swallowed.
JsonArray(data) ==
    /\ pc = "json"
    /\ items' = data
    /\ filteredItems' = data
    /\ \E setItemThrows \in BOOLEAN :
          /\ (storage.kind = "denied") => setItemThrows
          /\ storage' = IF setItemThrows THEN storage
                        ELSE JSONStringify(data, Num(now))
          /\ log' = [log EXCEPT !.succeededAt = now, !.payload = data,
                                !.stored = ~setItemThrows]
          /\ cache' = IF setItemThrows THEN cache ELSE Written(now)
          /\ pc' = AfterSetItem(setItemThrows)
    /\ UNCHANGED <<now, dom, attempt, lastError, backoff, page, listening,
                   loadingHidden, errorHidden, errorText, listHTML,
                   filterValue, searchValue, debounce, initResult, readAt, last,
                   sortValue, timers, inputAt, peer, dragDrop, nav>>

\* The backoff timer fires: attempt++, and the loop sends the next request
\* while attempt <= maxAttempts; past it the loop ends and fetchData returns.
BackoffFires ==
    /\ pc = "backoff"
    /\ now >= backoff
    /\ backoff' = -1
    /\ attempt' = attempt + 1
    /\ IF attempt + 1 <= maxAttempts
       THEN /\ log' = [log EXCEPT !.requests = @ + 1, !.startedAt = now]
            /\ pc' = "fetch"
       ELSE /\ log' = log
            /\ pc' = "fetched"
    /\ UNCHANGED <<now, storage, dom, lastError, items, filteredItems, page,
                   listening, loadingHidden, errorHidden, errorText, listHTML,
                   filterValue, searchValue, debounce, initResult, readAt, last,
                   sortValue, timers, inputAt, peer, dragDrop, cache, nav>>

(***************************************************************************)
(* init(): what follows the await                                          *)
(***************************************************************************)
\* fetchData() returned: setupEventListeners(), render(); a throwing render
\* lands in the catch block; hideLoading() in the finally block.
InitContinues ==
    /\ pc = "fetched"
    /\ listening' = TRUE
    /\ listHTML' = Rendered(filteredItems, page)
    /\ LET shown == IF RenderThrows THEN showError(RenderError)
                    ELSE [hidden |-> errorHidden, text |-> errorText]
       IN  errorHidden' = shown.hidden /\ errorText' = shown.text
    /\ loadingHidden' = hideLoading(loadingHidden)
    /\ initResult' = "resolved"
    /\ pc' = "done"
    /\ UNCHANGED <<now, storage, dom, attempt, lastError, backoff, items,
                   filteredItems, page, filterValue, searchValue, debounce,
                   log, readAt, last, sortValue, timers, inputAt, peer,
                   dragDrop, cache, nav>>

\* fetchData() threw lastError: the catch block, then the finally block.
InitCatches ==
    /\ pc = "threw"
    /\ LET shown == showError(lastError)
       IN  errorHidden' = shown.hidden /\ errorText' = shown.text
    /\ loadingHidden' = hideLoading(loadingHidden)
    /\ initResult' = "resolved"
    /\ pc' = "done"
    /\ UNCHANGED <<now, storage, dom, attempt, lastError, backoff, items,
                   filteredItems, page, listening, listHTML, filterValue,
                   searchValue, debounce, log, readAt, last, sortValue,
                   timers, inputAt, peer, dragDrop, cache, nav>>

(***************************************************************************)
(* The handlers of the sort, filter and search controls                    *)
(***************************************************************************)
\* e.target?.value || "" : the value of a control, "" when it is missing.
TargetValue(present, value) == IF present THEN value ELSE <<>>

\* Mutant of FilterMatches: the tags are compared as they are written.
FilterMatches_TagsAsWritten(it, needle) ==
    \/ toLowerCase(OrEmptyToString(Catalog[it].category)) = needle
    \/ (Catalog[it].tags.isArray /\ arrayIncludes(Catalog[it].tags.a, needle))

\* The test of onFilterChange's filter (lines 247-254).
FilterMatches(it, needle) ==
    LET category == toLowerCase(OrEmptyToString(Catalog[it].category))
        given == Catalog[it].tags
        tags == IF given.isArray
                THEN [i \in 1..Len(given.a) |-> toLowerCase(given.a[i])]
                ELSE <<>>
    IN  category = needle \/ arrayIncludes(tags, needle)

\* A filter that narrows the current view in place of items.
FilterBase_View == filteredItems

\* [...this.items] and this.items.filter: the array onFilterChange works on.
FilterBase == items

\* this.filteredItems after onFilterChange with the control's value `val`.
FilterResult(all, val) ==
    IF val = <<>> THEN all
    ELSE LET needle == toLowerCase(val)
             Test(it) == FilterMatches(it, needle)
         IN  SelectSeq(all, Test)

\* Mutant of SearchQuery: the value is not trimmed.
SearchQuery_Untrimmed(value) == toLowerCase(value)

\* (e.target?.value || "").toString().trim().toLowerCase()
SearchQuery(value) == toLowerCase(trim(value))

\* The test of onSearchInput's filter (lines 274-278).
SearchMatches(it, q) ==
    LET title == toLowerCase(OrEmptyToString(Catalog[it].title))
        content == toLowerCase(OrEmptyToString(Catalog[it].content))
    IN  includes(title, q) \/ includes(content, q)

\* Mutant of SearchBase: the search narrows what the filter left.
SearchBase_Stacked == filteredItems

\* The array onSearchInput filters with a query that is not empty.
SearchBase == items

\* this.filteredItems after onSearchInput with the input's value `value`:
\* an empty query hands the filter select to onFilterChange.
SearchResult(value) ==
    LET q == SearchQuery(value)
        Test(it) == SearchMatches(it, q)
    IN  IF q = <<>>
        THEN FilterResult(FilterBase, TargetValue(dom.filterSelect, filterValue))
        ELSE SelectSeq(SearchBase, Test)

Handled(op, by, v) == [op |-> op, by |-> by, v |-> v]

\* Handlers that run whether or not setupEventListeners() was called.
Dispatched_Always(attached) == TRUE

\* An event of a control reaches its handler when addEventListener has
\* attached it.
Dispatched(attached) == attached

\* A sort of the whole of items in place of the current view.
SortInput_All == items

\* const items = [...this.filteredItems]: the array onSortChange sorts.
SortInput == filteredItems

\* A sort in place of the array this.items names.
ItemsAfterSort_Aliased(all, sorted) == sorted

\* items.sort(...) orders the local copy [...this.filteredItems], an array
\* that this.items does not name: this.items after the sort.
ItemsAfterSort(all, sorted) == all

\* The user picks `by` in the sort select; its change event reaches
\* onSortChange once the listeners are attached.
onSortChange(by) ==
    /\ dom.sortSelect
    /\ pc \notin {"fetched", "threw"}
    /\ sortValue' = by
    /\ IF Dispatched(listening)
       THEN /\ \E sorted \in SortOutcomes(SortInput, by) :
                  /\ filteredItems' = sorted
                  /\ items' = ItemsAfterSort(items, sorted)
                  /\ listHTML' = Rendered(sorted, 1)
            /\ page' = 1
            /\ last' = Handled("sort", by, <<>>)
       ELSE UNCHANGED <<items, filteredItems, page, listHTML, last>>
    /\ UNCHANGED <<now, storage, dom, pc, attempt, lastError, backoff,
                   listening, loadingHidden, errorHidden, errorText,
                   filterValue, searchValue, debounce, initResult, log, readAt,
                   timers, inputAt, peer, dragDrop, cache, nav>>

\* The user picks `val` in the filter select; its change event reaches
\* onFilterChange once the listeners are attached.
onFilterChange(val) ==
    /\ dom.filterSelect
    /\ pc \notin {"fetched", "threw"}
    /\ filterValue' = val
    /\ IF Dispatched(listening)
       THEN /\ filteredItems' = FilterResult(FilterBase, val)
            /\ page' = 1
            /\ listHTML' = Rendered(FilterResult(FilterBase, val), 1)
            /\ last' = Handled("filter", "", val)
       ELSE UNCHANGED <<filteredItems, page, listHTML, last>>
    /\ UNCHANGED <<now, storage, dom, pc, attempt, lastError, backoff, items,
                   listening, loadingHidden, errorHidden, errorText,
                   searchValue, debounce, initResult, log, readAt, sortValue,
                   timers, inputAt, peer, dragDrop, cache, nav>>

\* The pending timers without the one the handle h names; a handle that
\* names no pending timer changes nothing.
ClearTimeout_Missing(pending, h) == pending

\* clearTimeout(t)
ClearTimeout(pending, h) == pending \ {h}

\* The user edits the search input to hold `value`; the input listener
\* replaces the pending timer by one that is due in 250 ms.
InputEvent(value) ==
    /\ dom.searchInput
    /\ pc \notin {"fetched", "threw"}
    /\ searchValue' = value
    /\ debounce' = IF Dispatched(listening) THEN now + 250 ELSE debounce
    /\ timers' = IF Dispatched(listening)
                 THEN ClearTimeout(timers, debounce) \cup {now + 250}
                 ELSE timers
    /\ inputAt' = IF Dispatched(listening) THEN now ELSE inputAt
    /\ UNCHANGED <<now, storage, dom, pc, attempt, lastError, backoff, items,
                   filteredItems, page, listening, loadingHidden, errorHidden,
                   errorText, listHTML, filterValue, initResult, log, readAt,
                   last, sortValue, peer, dragDrop, cache, nav>>

\* A debounce timer fires: onSearchInput(e) reads the input's value.
onSearchInput ==
    /\ \E due \in timers :
          /\ now >= due
          /\ timers' = timers \ {due}
          /\ debounce' = IF debounce = due THEN -1 ELSE debounce
    /\ inputAt' = -1
    /\ filteredItems' = SearchResult(searchValue)
    /\ page' = 1
    /\ listHTML' = Rendered(SearchResult(searchValue), 1)
    /\ last' = Handled("search", "", searchValue)
    /\ UNCHANGED <<now, storage, dom, pc, attempt, lastError, backoff, items,
                   listening, loadingHidden, errorHidden, errorText,
                   filterValue, searchValue, initResult, log, readAt,
                   sortValue, peer, dragDrop, cache, nav>>

(***************************************************************************)
(* The clock                                                               *)
(***************************************************************************)
\* Time passes.  The continuation of an await whose promise is settled runs
\* before any timer or event, so no time passes at "fetched" and "threw".
Advance(step) ==
    /\ pc \notin {"fetched", "threw"}
    /\ now' = now + step
    /\ UNCHANGED <<storage, dom, pc, attempt, lastError, backoff, items,
                   filteredItems, page, listening, loadingHidden, errorHidden,
                   errorText, listHTML, filterValue, searchValue, debounce,
                   initResult, log, readAt, last, sortValue, timers, inputAt,
                   peer, dragDrop, cache, nav>>

Tick ==
    /\ now + TickStep <= MaxNow
    /\ Advance(TickStep)

(***************************************************************************)
(* A second instance: fetchData() over the same storage                    *)
(***************************************************************************)
\* What belongs to the first instance and its container.
ownVars == <<dom, pc, attempt, lastError, backoff, items, filteredItems, page,
             listening, loadingHidden, errorHidden, errorText, listHTML,
             filterValue, searchValue, debounce, initResult, log, readAt,
             last, sortValue, timers, inputAt>>

\* The second instance after construction, with the history of its
\* attempts: the requests sent, the payload of the attempt that succeeded,
\* when it succeeded and whether setItem then returned normally.
NoPeer == [pc |-> "new", attempt |-> 0, lastError |-> "", backoff |-> -1,
           items |-> <<>>, filteredItems |-> <<>>, requests |-> 0,
           payload |-> <<>>, succeededAt |-> -1, stored |-> FALSE]

\* fetchData() of the second instance reads the cache (lines 75-91) and
\* either adopts it and returns or sends its first request.
PeerStart ==
    /\ peer.pc = "new"
    /\ peer' = IF CacheHit(storage, now)
               THEN [peer EXCEPT !.items = storage.data,
                                 !.filteredItems = storage.data,
                                 !.pc = "fetched"]
               ELSE [peer EXCEPT !.attempt = 1, !.requests = @ + 1,
                                 !.pc = "fetch"]
    /\ storage' = IF CacheHit(storage, now)
                  THEN StorageAfterHit(storage, now) ELSE storage
    /\ cache' = IF CacheHit(storage, now) THEN Adopted(cache) ELSE cache
    /\ UNCHANGED <<now, ownVars, dragDrop, nav>>

\* The catch block of the loop (lines 112-120) in the second instance.
PeerAttemptFails(message) ==
    /\ peer' = [peer EXCEPT
                  !.lastError = LastErrorAfter(@, message),
                  !.backoff = IF RetryAllowed(peer.attempt)
                              THEN now + BackoffDelay(peer.attempt) ELSE @,
                  !.pc = IF RetryAllowed(peer.attempt) THEN "backoff"
                         ELSE "threw"]
    /\ UNCHANGED <<now, storage, ownVars, dragDrop, cache, nav>>

PeerFetchNotOk ==
    /\ peer.pc = "fetch"
    /\ PeerAttemptFails(NotOkError)

PeerFetchOk ==
    /\ peer.pc = "fetch"
    /\ peer' = [peer EXCEPT !.pc = "json"]
    /\ UNCHANGED <<now, storage, ownVars, dragDrop, cache, nav>>

\* Lines 102-111 in the second instance.
PeerJsonArray(data) ==
    /\ peer.pc = "json"
    /\ \E setItemThrows \in BOOLEAN :
          /\ (storage.kind = "denied") => setItemThrows
          /\ storage' = IF setItemThrows THEN storage
                        ELSE JSONStringify(data, Num(now))
          /\ peer' = [peer EXCEPT !.items = data, !.filteredItems = data,
                                  !.payload = data, !.succeededAt = now,
                                  !.stored = ~setItemThrows,
                                  !.pc = AfterSetItem(setItemThrows)]
          /\ cache' = IF setItemThrows THEN cache ELSE Written(now)
    /\ UNCHANGED <<now, ownVars, dragDrop, nav>>

\* The backoff timer of the second instance fires.
PeerBackoffFires ==
    /\ peer.pc = "backoff"
    /\ now >= peer.backoff
    /\ peer' = IF peer.attempt + 1 <= maxAttempts
               THEN [peer EXCEPT !.backoff = -1, !.attempt = @ + 1,
                                 !.requests = @ + 1, !.pc = "fetch"]
               ELSE [peer EXCEPT !.backoff = -1, !.attempt = @ + 1,
                                 !.pc = "fetched"]
    /\ UNCHANGED <<now, storage, ownVars, dragDrop, cache, nav>>

\* The page is loaded again: a new instance is constructed over the same
\* storage, as long as the envelope was adopted fewer than MaxReads times.
MaxReads == 3

PeerReload ==
    /\ peer.pc \in {"fetched", "threw"}
    /\ cache.reads < MaxReads
    /\ peer' = NoPeer
    /\ UNCHANGED <<now, storage, ownVars, dragDrop, cache, nav>>

(***************************************************************************)
(* DragDrop (src/src/js/dragDrop.js)                                       *)
(***************************************************************************)
\* The elements of the document: the .draggable-item elements, the
\* .drop-zone elements, and "body" for a place outside every zone.
Items == {"a", "b"}

Zones == {"z1", "z2"}

Body == "body"

None == "null"

\* How many times init() is called in a run.
MaxInits == 2

\* this.state after the constructor, onDragEnd and destroy().
Idle == [isDragging |-> FALSE, currentItem |-> None, originZone |-> None]

\* item.closest(".drop-zone"): the zone the item lies in, or null.
closest(doc, item) ==
    IF doc.parent[item] \in Zones THEN doc.parent[item] ELSE None

\* item.contains(zone): the zone lies inside the item, directly or inside
\* an item that lies in a zone inside the item.
RECURSIVE contains(_, _, _)
contains(doc, item, zone) ==
    LET holder == doc.nest[zone]
    IN  /\ holder # None
        /\ \/ holder = item
           \/ /\ doc.parent[holder] \in Zones
              /\ contains(doc, item, doc.parent[holder])

\* safeAppend without the test for self-nesting and with an appendChild
\* that does not throw: the parents after it.
safeAppend_Unguarded(doc, zone, item) ==
    IF zone = None \/ item = None THEN doc.parent
    ELSE [doc.parent EXCEPT ![item] = zone]

\* safeAppend(zone, item): the parents after it.  appendChild moves the
\* item: it leaves the zone it was in.
safeAppend(doc, zone, item) ==
    IF zone = None \/ item = None THEN doc.parent
    ELSE IF contains(doc, item, zone) THEN doc.parent
    ELSE [doc.parent EXCEPT ![item] = zone]

\* The listeners of init() call number g are attached to the items and the
\* zones; this.bound holds the handlers of the call `bound`, 0 when empty.
\* An event runs the handlers of every call whose listeners are attached;
\* they do the same, so it matters only whether there is one.
Listens(doc) == doc.attached # {}

\* History: the call or the event of the latest step, the element it was
\* sent to, and the zone under the pointer of a pointerup.
Event(type, on, over) == [type |-> type, on |-> on, over |-> over]

\* A document with the instance constructed over it: the zone z2 may lie
\* inside the item a, and the item b may lie outside every zone.  History:
\* lifecycle is the latest of the constructor, init() and destroy(), and
\* twice says that init() was called while this.bound held handlers.
Document(nest, parent) ==
    [state |-> Idle, nest |-> nest, parent |-> parent, dragging |-> {},
     hover |-> {}, attached |-> {}, bound |-> 0, inits |-> 0,
     lifecycle |-> "constructed", twice |-> FALSE,
     event |-> Event("none", None, None)]

\* The document of the specifications in which DragDrop takes no step.
Untouched == Document([z \in Zones |-> None], [i \in Items |-> "z1"])

DragDocuments ==
    { Document(nest, parent) :
        nest \in { [z \in Zones |-> None],
                   [z \in Zones |-> IF z = "z2" THEN "a" ELSE None] },
        parent \in { [i \in Items |-> "z1"],
                     [i \in Items |-> IF i = "a" THEN "z1" ELSE Body] } }

\* What the DragDrop actions leave alone.
blogVars == <<now, storage, ownVars, peer, cache>>

\* What the drag and drop leaves alone.
notDragVars == <<blogVars, nav>>

\* destroy() removes the listeners this.bound holds.
Unbound(doc) == doc.attached \ {doc.bound}

\* init(): new handlers are attached to every item and zone, and this.bound
\* is set to them, replacing what it held.
DragInit ==
    /\ dragDrop.inits < MaxInits
    /\ dragDrop' = [dragDrop EXCEPT
                      !.inits = @ + 1,
                      !.attached = @ \cup {dragDrop.inits + 1},
                      !.bound = dragDrop.inits + 1,
                      !.lifecycle = "initialised",
                      !.twice = @ \/ dragDrop.bound # 0,
                      !.event = Event("init", None, None)]
    /\ UNCHANGED notDragVars

\* destroy(): the handlers of this.bound are removed, drop-hover is taken
\* from the zones of this.bound, and the state is reset.
DragDestroy ==
    /\ dragDrop' = [dragDrop EXCEPT
                      !.attached = Unbound(dragDrop),
                      !.bound = 0,
                      !.hover = IF dragDrop.bound # 0 THEN {} ELSE @,
                      !.state = Idle,
                      !.lifecycle = "destroyed",
                      !.event = Event("destroy", None, None)]
    /\ UNCHANGED notDragVars

\* A dragstart event on the item.
onDragStart(item) ==
    /\ Listens(dragDrop)
    /\ dragDrop' = [dragDrop EXCEPT
                      !.state = [isDragging |-> TRUE, currentItem |-> item,
                                 originZone |-> closest(dragDrop, item)],
                      !.dragging = @ \cup {item},
                      !.event = Event("dragstart", item, None)]
    /\ UNCHANGED notDragVars

\* A dragend event on the item.
onDragEnd(item) ==
    /\ Listens(dragDrop)
    /\ dragDrop' = [dragDrop EXCEPT !.state = Idle,
                                   !.dragging = @ \ {item},
                                   !.event = Event("dragend", item, None)]
    /\ UNCHANGED notDragVars

\* A pointerdown event on the item with the button `button`.
onPointerDown(item, button) ==
    /\ Listens(dragDrop)
    /\ dragDrop' = IF button # 0
                   THEN [dragDrop EXCEPT
                           !.event = Event("pointerdown", item, None)]
                   ELSE [dragDrop EXCEPT
                           !.state = [isDragging |-> TRUE,
                                      currentItem |-> item,
                                      originZone |-> closest(dragDrop, item)],
                           !.dragging = @ \cup {item},
                           !.event = Event("pointerdown", item, None)]
    /\ UNCHANGED notDragVars

\* A pointerup event on the item, the pointer over the zone `over` or over
\* no zone (None).
onPointerUp(item, over) ==
    /\ Listens(dragDrop)
    /\ dragDrop' = IF ~dragDrop.state.isDragging
                   THEN [dragDrop EXCEPT
                           !.event = Event("pointerup", item, over)]
                   ELSE [dragDrop EXCEPT
                           !.parent = safeAppend(dragDrop, over, item),
                           !.state = Idle,
                           !.dragging = @ \ {item},
                           !.event = Event("pointerup", item, over)]
    /\ UNCHANGED notDragVars

\* A dragenter event on the zone.
onDragEnter(zone) ==
    /\ Listens(dragDrop)
    /\ dragDrop' = [dragDrop EXCEPT !.hover = @ \cup {zone},
                                   !.event = Event("dragenter", zone, None)]
    /\ UNCHANGED notDragVars

\* A dragleave event on the zone.
onDragLeave(zone) ==
    /\ Listens(dragDrop)
    /\ dragDrop' = [dragDrop EXCEPT !.hover = @ \ {zone},
                                   !.event = Event("dragleave", zone, None)]
    /\ UNCHANGED notDragVars

\* A drop event on the zone.
onDrop(zone) ==
    /\ Listens(dragDrop)
    /\ dragDrop' = [dragDrop EXCEPT
                      !.hover = @ \ {zone},
                      !.parent = safeAppend(dragDrop, zone,
                                            dragDrop.state.currentItem),
                      !.event = Event("drop", zone, None)]
    /\ UNCHANGED notDragVars

(***************************************************************************)
(* Navigation (src/src/js/navigation.js)                                   *)
(***************************************************************************)
\* The a[href^="#"] elements of the document: one inside the nav list, one
\* outside the list and the toggle.
Links == {"inner", "outer"}

Place(link) == IF link = "inner" THEN "list" ELSE "outside"

\* Where a click can land: on an element of the nav list, or outside the
\* list and the toggle.
Places == {"list", "outside"}

Keys == {"Escape", "Enter"}

\* window.innerWidth at a resize event.
Widths == {767, 768}

\* History: the latest event, the element or key it came with, and whether
\* the toggle said "true" before it.
NavEvent(type, on, was) == [type |-> type, on |-> on, was |-> was]

\* A document with the instance constructed over it, toggle and nav list
\* present and the menu closed.  aria is the toggle's aria-expanded
\* ("absent" when the markup sets none), open the class "open" of the nav
\* list, transition its style.transition, frame a pending
\* requestAnimationFrame callback, timer a pending 500 ms timeout, and
\* target says for each link whether the element its href names exists.
NavDocument(aria, target) ==
    [aria |-> aria, open |-> FALSE, transition |-> "", frame |-> FALSE,
     isScrolling |-> FALSE, timer |-> FALSE, target |-> target,
     event |-> NavEvent("none", "", FALSE)]

NavUntouched == NavDocument("false", [l \in Links |-> TRUE])

NavDocuments ==
    { NavDocument(aria, target) :
        aria \in {"false", "absent"}, target \in [Links -> BOOLEAN] }

\* this.navToggle.getAttribute("aria-expanded") === "true"
Expanded(n) == n.aria = "true"

\* String(expanded)
BooleanToString(b) == IF b THEN "true" ELSE "false"

\* setNavExpanded(expanded, silent), lines 167-181.
setNavExpanded(n, expanded, silent) ==
    IF expanded
    THEN [n EXCEPT !.aria = BooleanToString(expanded),
                   !.open = TRUE,
                   !.transition = IF silent THEN "none" ELSE @,
                   !.frame = TRUE]
    ELSE [n EXCEPT !.aria = BooleanToString(expanded),
                   !.open = FALSE,
                   !.transition = ""]

\* handleNavToggle(), lines 156-159.
handleNavToggle(n) == setNavExpanded(n, ~Expanded(n), FALSE)

\* The click listener of the document (lines 80-90), for a click on an
\* element at `place`.
outsideClickHandler(n, place) ==
    IF ~Expanded(n) THEN n
    ELSE IF place \notin {"list", "toggle"}
         THEN setNavExpanded(n, FALSE, FALSE)
         ELSE n

\* A link handler that closes the menu before it looks for the target.
handleLinkClick_ClosesFirst(n, link) ==
    IF ~n.target[link] THEN setNavExpanded(n, FALSE, FALSE)
    ELSE [setNavExpanded(n, FALSE, FALSE) EXCEPT !.isScrolling = TRUE,
                                                 !.timer = TRUE]

\* handleLinkClick(link, e), lines 126-150: without a target element it
\* returns before the scroll and before setNavExpanded(false).
handleLinkClick(n, link) ==
    IF ~n.target[link] THEN n
    ELSE [setNavExpanded([n EXCEPT !.isScrolling = TRUE], FALSE, FALSE)
            EXCEPT !.timer = TRUE]

\* What every navigation step leaves alone.
notNavVars == <<blogVars, dragDrop>>

\* A click on the hamburger toggle: its own listener, then the document's.
ToggleClick ==
    /\ nav' = [outsideClickHandler(handleNavToggle(nav), "toggle") EXCEPT
                 !.event = NavEvent("toggle", "toggle", Expanded(nav))]
    /\ UNCHANGED notNavVars

\* A click on an element that is neither a link nor the toggle.
Click(place) ==
    /\ nav' = [outsideClickHandler(nav, place) EXCEPT
                 !.event = NavEvent("click", place, Expanded(nav))]
    /\ UNCHANGED notNavVars

\* A click on an anchor link: the link's listener, then the document's.
LinkClick(link) ==
    /\ nav' = [outsideClickHandler(handleLinkClick(nav, link), Place(link))
                 EXCEPT !.event = NavEvent("link", link, Expanded(nav))]
    /\ UNCHANGED notNavVars

\* A keydown event of the window (lines 94-96).
KeyDown(key) ==
    /\ nav' = [(IF key = "Escape" THEN setNavExpanded(nav, FALSE, FALSE)
                ELSE nav) EXCEPT
                 !.event = NavEvent("keydown", key, Expanded(nav))]
    /\ UNCHANGED notNavVars

\* A resize event of the window (lines 100-102).
Resize(width) ==
    /\ nav' = [(IF width >= 768 THEN setNavExpanded(nav, FALSE, TRUE)
                ELSE nav) EXCEPT
                 !.event = NavEvent("resize", IF width >= 768 THEN "wide"
                                              ELSE "narrow", Expanded(nav))]
    /\ UNCHANGED notNavVars

\* The requestAnimationFrame callback of lines 174-176.
AnimationFrame ==
    /\ nav.frame
    /\ nav' = [nav EXCEPT !.frame = FALSE, !.transition = ""]
    /\ UNCHANGED notNavVars

\* The timeout of lines 147-149.
ScrollTimeout ==
    /\ nav.timer
    /\ nav' = [nav EXCEPT !.timer = FALSE, !.isScrolling = FALSE]
    /\ UNCHANGED notNavVars

(***************************************************************************)
(* Specifications                                                          *)
(***************************************************************************)
\* The history of the network attempts: how many requests were sent and how
\* many failed, when the current attempt started, when the latest failure
\* happened and with which error, when an attempt succeeded and with which
\* payload, and whether setItem then returned normally.
NoLog == [requests |-> 0, startedAt |-> -1, failures |-> 0, failedAt |-> -1,
          failure |-> "", succeededAt |-> -1, payload |-> <<>>,
          stored |-> FALSE]

\* The state the constructor leaves (lines 19-46), in a page whose error
\* container starts hidden.
Constructed ==
    /\ now = InitNow
    /\ pc = "new"
    /\ attempt = 0
    /\ lastError = ""
    /\ backoff = -1
    /\ items = <<>>
    /\ filteredItems = <<>>
    /\ page = 1
    /\ listening = FALSE
    /\ loadingHidden \in BOOLEAN
    /\ errorHidden = TRUE
    /\ errorText = ""
    /\ listHTML = EmptyList
    /\ filterValue = <<>>
    /\ searchValue = <<>>
    /\ debounce = -1
    /\ initResult = "pending"
    /\ log = NoLog
    /\ readAt = -1
    /\ last = Handled("none", "", <<>>)
    /\ sortValue = ""
    /\ timers = {}
    /\ inputAt = -1
    /\ peer = NoPeer
    /\ dragDrop \in DragDocuments
    /\ cache = NoCache
    /\ nav \in NavDocuments

\* Acquisition: every storage content, every outcome of every attempt.
Init ==
    /\ Constructed
    /\ dragDrop = Untouched
    /\ nav = NavUntouched
    /\ storage \in InitialStorage
    /\ dom \in DomConfigs

Next ==
    \/ Start
    \/ FetchRejects
    \/ FetchNotOk
    \/ FetchOk
    \/ JsonRejects
    \/ JsonNotArray
    \/ \E data \in NetPayloads : JsonArray(data)
    \/ BackoffFires
    \/ InitContinues
    \/ InitCatches
    \/ Tick

Spec == Init /\ [][Next]_vars

\* In the view specification the response arrives at once, and time passes
\* while the user works the controls.
TickView ==
    /\ pc = "done"
    /\ now + TickStep <= InitNow + ViewElapsed
    /\ Tick

\* The view: no envelope in storage, the first attempt succeeds, and the
\* user works the controls.
InitView ==
    /\ Constructed
    /\ dragDrop = Untouched
    /\ nav = NavUntouched
    /\ storage = StoredText("absent")
    /\ dom \in { AllPresent, Dom(TRUE, TRUE, TRUE, TRUE, FALSE, TRUE) }

NextView ==
    \/ Start
    \/ FetchOk
    \/ \E data \in ViewPayloads : JsonArray(data)
    \/ InitContinues
    \/ \E by \in SortValues : onSortChange(by)
    \/ \E val \in FilterValues : onFilterChange(val)
    \/ \E value \in SearchValues : InputEvent(value)
    \/ onSearchInput
    \/ TickView

SpecView == InitView /\ [][NextView]_vars

\* The pages: as the view, with a payload longer than a page.
NextPage ==
    \/ Start
    \/ FetchOk
    \/ \E data \in PagePayloads : JsonArray(data)
    \/ InitContinues
    \/ \E by \in SortValues : onSortChange(by)
    \/ \E val \in FilterValues : onFilterChange(val)
    \/ \E value \in SearchValues : InputEvent(value)
    \/ onSearchInput
    \/ TickView

SpecPage == InitView /\ [][NextPage]_vars

\* The debounce: the user types, and the clock advances by steps shorter
\* than the delay of 250 ms.
TickFine ==
    /\ pc = "done"
    /\ now + DebounceStep <= InitNow + DebounceElapsed
    /\ Advance(DebounceStep)

NextDebounce ==
    \/ Start
    \/ FetchOk
    \/ \E data \in ViewPayloads : JsonArray(data)
    \/ InitContinues
    \/ \E value \in SearchValues : InputEvent(value)
    \/ onSearchInput
    \/ TickFine

SpecDebounce == InitView /\ [][NextDebounce]_vars

\* The race: two instances run init() over a storage that holds nothing or
\* a stale envelope; the server's answer may differ from request to request.
RaceElapsed == 900

RacePayloads == { <<1, 2>>, <<3>> }

TickRace ==
    /\ now + TickStep <= InitNow + RaceElapsed
    /\ Advance(TickStep)

InitRace ==
    /\ Constructed
    /\ dragDrop = Untouched
    /\ nav = NavUntouched
    /\ storage \in { StoredText("absent"),
                     [kind |-> "object", isArray |-> TRUE, data |-> CachedData,
                      timestamp |-> Num(InitNow - cacheTtlMs)] }
    /\ dom = AllPresent
    /\ loadingHidden

NextRace ==
    \/ Start
    \/ FetchNotOk
    \/ FetchOk
    \/ \E data \in RacePayloads : JsonArray(data)
    \/ BackoffFires
    \/ InitContinues
    \/ InitCatches
    \/ PeerStart
    \/ PeerFetchNotOk
    \/ PeerFetchOk
    \/ \E data \in RacePayloads : PeerJsonArray(data)
    \/ PeerBackoffFires
    \/ TickRace

SpecRace == InitRace /\ [][NextRace]_vars

\* The rereading: the page is loaded again and again over minutes, so that
\* the envelope is read while fresh, at the age of 10 minutes, and later.
LongStep == 300000

RereadElapsed == 900000

TickLong ==
    /\ pc = "done"
    /\ peer.pc \in {"new", "fetched", "threw"}
    /\ now + LongStep <= InitNow + RereadElapsed
    /\ Advance(LongStep)

TickBackoff ==
    /\ pc = "backoff"
    /\ now < backoff
    /\ Advance(TickStep)

InitReread ==
    /\ Constructed
    /\ dragDrop = Untouched
    /\ nav = NavUntouched
    /\ storage \in { StoredText("absent"),
                     [kind |-> "object", isArray |-> TRUE, data |-> CachedData,
                      timestamp |-> Num(InitNow - cacheTtlMs)],
                     [kind |-> "object", isArray |-> TRUE, data |-> CachedData,
                      timestamp |-> Num(InitNow - LongStep)] }
    /\ dom = AllPresent
    /\ loadingHidden

NextReread ==
    \/ Start
    \/ FetchNotOk
    \/ FetchOk
    \/ \E data \in RacePayloads : JsonArray(data)
    \/ BackoffFires
    \/ InitContinues
    \/ InitCatches
    \/ PeerStart
    \/ PeerFetchOk
    \/ \E data \in RacePayloads : PeerJsonArray(data)
    \/ PeerReload
    \/ TickLong
    \/ TickBackoff

SpecReread == InitReread /\ [][NextReread]_vars

\* The early user: the controls are worked from the start, while the
\* requests fail or succeed and the backoff delays run.
EarlyElapsed == 900

EarlyPayloads == { <<3, 1>> }

EarlySorts == { "title" }

EarlyFilters == { <<"G","a","d","g","e","t","s">> }

EarlySearches == { <<" ","R","e","a","c","t">> }

TickEarly ==
    /\ now + TickStep <= InitNow + EarlyElapsed
    /\ Advance(TickStep)

InitEarly ==
    /\ Constructed
    /\ dragDrop = Untouched
    /\ nav = NavUntouched
    /\ storage = StoredText("absent")
    /\ dom = AllPresent
    /\ loadingHidden

NextEarly ==
    \/ Start
    \/ FetchNotOk
    \/ FetchOk
    \/ JsonNotArray
    \/ \E data \in EarlyPayloads : JsonArray(data)
    \/ BackoffFires
    \/ InitContinues
    \/ InitCatches
    \/ \E by \in EarlySorts : onSortChange(by)
    \/ \E val \in EarlyFilters : onFilterChange(val)
    \/ \E value \in EarlySearches : InputEvent(value)
    \/ onSearchInput
    \/ TickEarly

SpecEarly == InitEarly /\ [][NextEarly]_vars

\* The navigation: the user works the toggle, the links, the keyboard and
\* the window.
InitNav ==
    /\ Constructed
    /\ dragDrop = Untouched
    /\ storage = StoredText("absent")
    /\ dom = AllPresent
    /\ loadingHidden

NextNav ==
    \/ ToggleClick
    \/ \E place \in Places : Click(place)
    \/ \E link \in Links : LinkClick(link)
    \/ \E key \in Keys : KeyDown(key)
    \/ \E width \in Widths : Resize(width)
    \/ AnimationFrame
    \/ ScrollTimeout

SpecNav == InitNav /\ [][NextNav]_vars

\* The drag and drop: the page calls init() and destroy(), and the user
\* works the items and the zones.
InitDrag ==
    /\ Constructed
    /\ nav = NavUntouched
    /\ storage = StoredText("absent")
    /\ dom = AllPresent
    /\ loadingHidden

NextDrag ==
    \/ DragInit
    \/ DragDestroy
    \/ \E item \in Items : onDragStart(item)
    \/ \E item \in Items : onDragEnd(item)
    \/ \E item \in Items, button \in {0, 2} : onPointerDown(item, button)
    \/ \E item \in Items, over \in Zones \cup {None} : onPointerUp(item, over)
    \/ \E zone \in Zones : onDragEnter(zone)
    \/ \E zone \in Zones : onDragLeave(zone)
    \/ \E zone \in Zones : onDrop(zone)

SpecDrag == InitDrag /\ [][NextDrag]_vars

(***************************************************************************)
(* Claims about the acquisition (specification Spec)                       *)
(***************************************************************************)
\* The stored text is an envelope whose data is an array and whose age at
\* the time t is less than 10 minutes.
FreshEnvelope(text, t) ==
    /\ text.kind = "object"
    /\ text.isArray
    /\ text.timestamp.t = "number"
    /\ t - text.timestamp.n < 600000

\* The stored text is absent, not parsable, without an array under data, or
\* an envelope whose age at the time t is 10 minutes or more.
NoUsableEnvelope(text, t) ==
    \/ text.kind \in {"absent", "empty", "unparsable", "null", "denied"}
    \/ (text.kind = "object" /\ ~text.isArray)
    \/ (text.kind = "object" /\ text.isArray /\ text.timestamp.t = "number"
        /\ t - text.timestamp.n >= 600000)

\* The step in which init() calls fetchData() and the cache is read.
CacheIsRead == pc = "new" /\ pc' # "new"

\* C1: when fetchData finds a fresh envelope (array data, age under 10
\* minutes) it returns with items and filteredItems equal to the cached
\* sequence, in its order, and no network request is sent, then or later.
C1_FreshCacheNoRequest ==
    [][ /\ (CacheIsRead /\ FreshEnvelope(storage, now)) =>
              /\ pc' = "fetched"
              /\ items' = storage.data
              /\ filteredItems' = storage.data
              /\ log'.requests = 0
        /\ (pc \in {"fetched", "done"} /\ log.requests = 0) =>
              /\ log'.requests = 0
              /\ items' = items ]_vars

C1_Witness ==
    /\ pc = "done"
    /\ log.requests = 0
    /\ FreshEnvelope(storage, readAt)
    /\ storage.timestamp.n = InitNow - 600000 + TickStep
    /\ items = CachedData /\ filteredItems = CachedData

\* C2: when the stored text is absent, unparsable, without an array, or 10
\* minutes old or older, fetchData sends a request and adopts nothing from
\* storage, and reading the cache never makes fetchData throw; what is
\* adopted later is the payload of a network attempt.
C2_StaleCacheRequests ==
    [][ /\ (CacheIsRead /\ NoUsableEnvelope(storage, now)) =>
              /\ pc' = "fetch"
              /\ log'.requests = 1
              /\ items' = <<>> /\ filteredItems' = <<>>
              /\ lastError' = "" /\ errorText' = "" /\ errorHidden'
        /\ (log.requests >= 1 /\ items' # items) =>
              (items' = log'.payload /\ log'.succeededAt = now) ]_vars

C2_Witness ==
    /\ pc = "fetch"
    /\ log.requests = 1
    /\ storage.kind = "object" /\ storage.isArray
    /\ storage.timestamp.t = "number"
    /\ readAt - storage.timestamp.n = 600000
    /\ items = <<>>

\* C3: when every attempt fails, exactly three requests are sent, fetchData
\* throws at the third failure with no backoff after it, and the error it
\* throws is the one of the third attempt.
C3_ThreeAttemptsThenThrow ==
    /\ log.requests <= 3
    /\ log.failures = 3 => pc \in {"threw", "done"}
    /\ pc = "threw" =>
          /\ log.requests = 3 /\ log.failures = 3
          /\ lastError = log.failure
          /\ backoff = -1
          /\ now = log.failedAt

C3_Witness ==
    /\ pc = "threw"
    /\ log.requests = 3
    /\ lastError = NotArrayError
    /\ now >= InitNow + 900

\* The backoff before the attempt in flight: attempt 2 starts 300 ms or more
\* after failure 1, attempt 3 starts 600 ms or more after failure 2.
BackoffRespected ==
    /\ (pc \in {"fetch", "json"} /\ attempt = 2) =>
          log.startedAt - log.failedAt >= 300
    /\ (pc \in {"fetch", "json"} /\ attempt = 3) =>
          log.startedAt - log.failedAt >= 600

\* fetchData has returned from a third attempt that succeeded.
ThirdAttemptSucceeded ==
    pc = "fetched" /\ log.requests = 3 /\ log.succeededAt >= 0

\* C4 as claimed: with failures on attempts 1 and 2 and a success on attempt
\* 3, the backoffs are respected and items, filteredItems and the cached
\* envelope's data all equal the payload of attempt 3.
C4_AsClaimed ==
    /\ BackoffRespected
    /\ ThirdAttemptSucceeded =>
          /\ items = log.payload /\ filteredItems = log.payload
          /\ storage.kind = "object" /\ storage.isArray
          /\ storage.data = log.payload

\* C4 as amended: the same, the envelope being the one of attempt 3 unless
\* setItem threw, in which case the storage is left as it was.
C4_RetryThenSuccess ==
    /\ BackoffRespected
    /\ ThirdAttemptSucceeded =>
          /\ log.failures = 2
          /\ items = log.payload /\ filteredItems = log.payload
          /\ log.stored =>
                storage = JSONStringify(log.payload, Num(log.succeededAt))

C4_Witness ==
    /\ ThirdAttemptSucceeded
    /\ log.stored
    /\ items = <<1, 2>>
    /\ storage.data = <<1, 2>>
    /\ log.startedAt - log.failedAt = 600

\* C5: when init() has finished, on whichever path, the loading indicator
\* is hidden.
C5_LoadingHiddenAtEnd ==
    /\ pc = "done" <=> initResult # "pending"
    /\ (pc = "done" /\ dom.loadingIndicator) => loadingHidden

C5_Witness ==
    /\ pc = "done"
    /\ dom.loadingIndicator /\ loadingHidden
    /\ ~dom.listContainer
    /\ log.succeededAt >= 0

\* C6: when the three attempts have failed, init() resolves, and the error
\* region is visible with the text "Error: " and the third attempt's
\* message; when acquisition and the first render succeed the error region
\* is never shown.
C6_ErrorShownOnExhaustion ==
    /\ initResult \in {"pending", "resolved"}
    /\ (pc = "done" /\ log.failures = 3) => initResult = "resolved"
    /\ (pc = "done" /\ log.failures = 3 /\ dom.errorContainer) =>
          (~errorHidden /\ errorText = "Error: " \o log.failure)
    /\ (pc # "done" \/ (log.failures < 3 /\ dom.listContainer)) =>
          (errorHidden /\ errorText = "")

C6_Witness ==
    /\ pc = "done"
    /\ log.failures = 3
    /\ ~errorHidden
    /\ errorText = "Error: Unexpected API response"

(***************************************************************************)
(* Claims about the controls (specification SpecView)                      *)
(***************************************************************************)
\* The strings a and b are equal up to the case of their letters.
EqualsIgnoringCase(a, b) ==
    /\ Len(a) = Len(b)
    /\ \A i \in 1..Len(a) : ToLowerChar(a[i]) = ToLowerChar(b[i])

\* The string s contains the string q up to the case of the letters.
ContainsIgnoringCase(s, q) ==
    \E k \in 0..(Len(s) - Len(q)) :
       \A i \in 1..Len(q) : ToLowerChar(s[k + i]) = ToLowerChar(q[i])

\* The entry's category equals v, or one of its tags does.
CategoryOrTagIs(it, v) ==
    \/ /\ Catalog[it].category.t = "string"
       /\ EqualsIgnoringCase(Catalog[it].category.s, v)
    \/ /\ Catalog[it].tags.isArray
       /\ \E i \in 1..Len(Catalog[it].tags.a) :
             EqualsIgnoringCase(Catalog[it].tags.a[i], v)

\* The entries of items that the filter value v selects, in their order.
Filtered(v) ==
    LET Kept(it) == CategoryOrTagIs(it, v)
    IN  IF v = <<>> THEN items ELSE SelectSeq(items, Kept)

\* The entry's title or content contains q.
TitleOrContentHas(it, q) ==
    \/ /\ Catalog[it].title.t = "string"
       /\ ContainsIgnoringCase(Catalog[it].title.s, q)
    \/ /\ Catalog[it].content.t = "string"
       /\ ContainsIgnoringCase(Catalog[it].content.s, q)

\* C7: after onFilterChange with the value v, filteredItems holds exactly
\* the entries of items whose category or one of whose tags equals v up to
\* case; with the empty value it holds all of items.
C7_FilterSelects ==
    last.op = "filter" => filteredItems = Filtered(last.v)

C7_Witness ==
    /\ last.op = "filter"
    /\ EqualsIgnoringCase(last.v, <<"g","a","d","g","e","t","s">>)
    /\ items = <<1, 2, 3, 4>>
    /\ filteredItems = <<1, 2, 4>>

\* C8: after onSearchInput with a query that is not empty once trimmed,
\* filteredItems holds exactly the entries of items whose title or content
\* contains the query up to case, whatever the filter select holds.
C8_SearchSelects ==
    (last.op = "search" /\ trim(last.v) # <<>>) =>
        LET Kept(it) == TitleOrContentHas(it, trim(last.v))
        IN  filteredItems = SelectSeq(items, Kept)

C8_Witness ==
    /\ last.op = "search"
    /\ trim(last.v) = <<"R","e","a","c","t">>
    /\ EqualsIgnoringCase(filterValue, <<"s","t","a","r","t","u","p","s">>)
    /\ items = <<1, 2, 3, 4>>
    /\ filteredItems = <<1, 2>>

\* C9: after onSearchInput with an empty or blank query, filteredItems holds
\* what the value of the filter select selects, and all of items when that
\* value is empty or the select is missing.
C9_EmptySearchRestoresFilter ==
    (last.op = "search" /\ trim(last.v) = <<>>) =>
        filteredItems = IF dom.filterSelect THEN Filtered(filterValue)
                        ELSE items

C9_Witness ==
    /\ last.op = "search"
    /\ last.v = <<" ">>
    /\ dom.filterSelect
    /\ EqualsIgnoringCase(filterValue, <<"s","t","a","r","t","u","p","s">>)
    /\ items = <<1, 2, 3, 4>>
    /\ filteredItems = <<2>>

\* The number the reading_time v stands for: the number itself, the digits
\* before "min", failing that the first run of digits; none gives -1.
MinutesOf(v) ==
    IF v.t = "number" THEN v.n
    ELSE IF v.t # "string" THEN -1
    ELSE IF ~MatchDigitsBeforeMin(v.s).isNull
         THEN DigitsValue(MatchDigitsBeforeMin(v.s).whole.s)
    ELSE IF ~MatchDigits(v.s).isNull
         THEN DigitsValue(MatchDigits(v.s).whole.s)
    ELSE -1

\* The entry a may stand before the entry b in ascending order of minutes,
\* the entries without a number last.
MinutesInOrder(a, b) ==
    LET ma == MinutesOf(Catalog[a].reading_time)
        mb == MinutesOf(Catalog[b].reading_time)
    IN  mb = -1 \/ (ma # -1 /\ ma <= mb)

\* C10 as claimed: after onSortChange with reading_time, filteredItems is in
\* ascending order of the minutes, the entries without a number last: "5 min
\* read", "12", 7, "no time" come out as 5, 7, 12, "no time".
C10_AsClaimed ==
    (last.op = "sort" /\ last.by = "reading_time") =>
        \A i, j \in 1..Len(filteredItems) :
           i < j => MinutesInOrder(filteredItems[i], filteredItems[j])

\* The entry's reading_time is a string whose digits no "min" follows.
BareDigits(it) ==
    /\ Catalog[it].reading_time.t = "string"
    /\ MatchDigitsBeforeMin(Catalog[it].reading_time.s).isNull
    /\ ~MatchDigits(Catalog[it].reading_time.s).isNull

\* C10 as the code has it: the order is the claimed one when no entry's
\* reading_time is a string of digits that no "min" follows.
C10_OrderedWithoutBareDigits ==
    (/\ last.op = "sort" /\ last.by = "reading_time"
     /\ \A i \in 1..Len(filteredItems) : ~BareDigits(filteredItems[i])) =>
        \A i, j \in 1..Len(filteredItems) :
           i < j => MinutesInOrder(filteredItems[i], filteredItems[j])

C10_Witness ==
    /\ last.op = "sort" /\ last.by = "reading_time"
    /\ items = <<3, 1>>
    /\ filteredItems = <<1, 3>>

\* How many times the entry x stands in the sequence s.
Count(s, x) == Cardinality({i \in 1..Len(s) : s[i] = x})

\* The sequences s and r hold the same entries, each as many times.
SameEntries(s, r) ==
    /\ Len(s) = Len(r)
    /\ \A x \in 1..Len(Catalog) : Count(s, x) = Count(r, x)

\* C11: onSortChange, for every criterion, only reorders the view:
\* filteredItems after it is a permutation of filteredItems before it, so
\* what a filter or search selected stays selected.
C11_SortPermutes ==
    [][ last'.op = "sort" => SameEntries(filteredItems, filteredItems') ]_vars

C11_Witness ==
    /\ last.op = "sort" /\ last.by = "category"
    /\ EqualsIgnoringCase(filterValue, <<"g","a","d","g","e","t","s">>)
    /\ items = <<1, 2, 3, 4>>
    /\ filteredItems = <<4, 1, 2>>

\* The sequence s is r with some of its entries left out.
RECURSIVE IsSubsequence(_, _)
IsSubsequence(s, r) ==
    IF s = <<>> THEN TRUE
    ELSE IF r = <<>> THEN FALSE
    ELSE IF Head(s) = Head(r) THEN IsSubsequence(Tail(s), Tail(r))
    ELSE IsSubsequence(s, Tail(r))

\* C12: a filter change or a search, cleared or not, discards an earlier
\* sort: filteredItems is then a subsequence of items in the fetch order,
\* whatever criterion the sort select still shows.
C12_FilterAndSearchDiscardSort ==
    last.op \in {"filter", "search"} => IsSubsequence(filteredItems, items)

C12_Witness ==
    /\ sortValue = "category"
    /\ last.op = "filter"
    /\ EqualsIgnoringCase(last.v, <<"g","a","d","g","e","t","s">>)
    /\ items = <<4, 3, 2, 1>>
    /\ filteredItems = <<4, 2, 1>>

(***************************************************************************)
(* Claims about render and the page (specification SpecPage)               *)
(***************************************************************************)
\* The smaller of two numbers.
Min(a, b) == IF a < b THEN a ELSE b

\* C13: render shows the first page * perPage entries of filteredItems, in
\* their order, one article each; an empty filteredItems gives the
\* placeholder "No blogs found" and no article, and the placeholder never
\* stands with an article.
C13_RenderShowsFirstPage ==
    (pc = "done" /\ dom.listContainer) =>
        /\ Len(listHTML.articles) = Min(Len(filteredItems), page * 10)
        /\ \A i \in 1..Len(listHTML.articles) :
              listHTML.articles[i] = filteredItems[i]
        /\ listHTML.noResults <=> filteredItems = <<>>
        /\ ~(listHTML.noResults /\ listHTML.articles # <<>>)

C13_Witness ==
    /\ pc = "done"
    /\ last.op = "sort" /\ last.by = "category"
    /\ Len(filteredItems) = 12
    /\ filteredItems[10] = 3
    /\ listHTML.articles = <<1, 1, 1, 1, 1, 1, 1, 3, 3, 3>>

\* C14: page is 1 in every state, after every sort, filter and search as
\* before them, so no more than perPage (10) articles are ever rendered,
\* however many entries filteredItems holds.
C14_PageStaysOne ==
    /\ page = 1
    /\ Len(listHTML.articles) <= 10

C14_Witness ==
    /\ last.op = "search"
    /\ page = 1
    /\ Len(filteredItems) = 12
    /\ Len(listHTML.articles) = 10

(***************************************************************************)
(* Claims about the debounce (specification SpecDebounce)                  *)
(***************************************************************************)
\* The step is a run of onSearchInput.
SearchRuns == \E due \in timers : timers' = timers \ {due}

\* One timer at most is pending: none when every input event was followed
\* by a search, else the one due 250 ms after the latest input event.
OneTimer ==
    /\ Cardinality(timers) <= 1
    /\ timers = IF inputAt < 0 THEN {} ELSE {inputAt + 250}

\* C15: in a burst of input events onSearchInput does not run before 250
\* ms have passed since the latest event, it then runs once, with the value
\* the input holds at that moment, and leaves no timer behind; one timer at
\* most is pending at any time, due 250 ms after the latest event.
C15_DebounceRunsOnce ==
    [][ /\ OneTimer'
        /\ SearchRuns =>
              /\ inputAt >= 0
              /\ now >= inputAt + 250
              /\ last'.op = "search" /\ last'.v = searchValue
              /\ filteredItems' = SearchResult(searchValue)
              /\ timers' = {} ]_vars

C15_Witness ==
    /\ last.op = "search"
    /\ last.v = <<" ","R","e","a","c","t">>
    /\ now = InitNow + DebounceStep + 250
    /\ timers = {}
    /\ items = <<1, 2, 3, 4>>
    /\ filteredItems = <<1, 2>>

(***************************************************************************)
(* Further claims about the acquisition (specification Spec)               *)
(***************************************************************************)
\* The step in which an attempt succeeds and setItem throws.
WriteFails == pc = "json" /\ log'.succeededAt = now /\ ~log'.stored

\* C16: when an attempt succeeds and the write of the envelope fails,
\* fetchData returns normally with items and filteredItems equal to the
\* payload; the failure is not shown, is no failed attempt and brings no
\* further request.
C16_WriteFailureTolerated ==
    [][ /\ WriteFails =>
              /\ pc' = "fetched"
              /\ items' = log'.payload /\ filteredItems' = log'.payload
              /\ storage' = storage
              /\ lastError' = lastError
              /\ log'.failures = log.failures
              /\ log'.requests = log.requests
        /\ (log.succeededAt >= 0 /\ ~log.stored) =>
              /\ pc' \in {"fetched", "done"}
              /\ log'.requests = log.requests
              /\ log'.failures = log.failures
              /\ dom.listContainer => (errorHidden' /\ errorText' = "") ]_vars

C16_Witness ==
    /\ pc = "done"
    /\ log.succeededAt >= 0 /\ ~log.stored
    /\ log.requests = 1
    /\ storage.kind = "object" /\ storage.data = CachedData
    /\ items = <<1, 2>> /\ filteredItems = <<1, 2>>
    /\ dom.listContainer /\ errorHidden

(***************************************************************************)
(* Claims about two instances (specification SpecRace)                     *)
(***************************************************************************)
\* The stored text is a complete envelope: an array and a timestamp.
CompleteEnvelope(text) ==
    /\ text.kind = "object"
    /\ text.isArray
    /\ text.timestamp.t = "number"

\* The envelope an attempt that got `payload` at the time `at` writes.
EnvelopeOf(payload, at) ==
    [kind |-> "object", isArray |-> TRUE, data |-> payload,
     timestamp |-> Num(at)]

\* The storage holds nothing, the envelope it held at the start, or the
\* envelope of the latest attempt of either instance that wrote one.
StorageWhole ==
    LET own == EnvelopeOf(log.payload, log.succeededAt)
        other == EnvelopeOf(peer.payload, peer.succeededAt)
    IN  /\ storage.kind = "absent" \/ CompleteEnvelope(storage)
        /\ (~log.stored /\ ~peer.stored) =>
              (storage.kind = "absent" \/
               storage = EnvelopeOf(CachedData, InitNow - 600000))
        /\ (log.stored /\ ~peer.stored) => storage = own
        /\ (peer.stored /\ ~log.stored) => storage = other
        /\ (log.stored /\ peer.stored) =>
              /\ storage \in {own, other}
              /\ log.succeededAt > peer.succeededAt => storage = own
              /\ peer.succeededAt > log.succeededAt => storage = other

\* C17: two instances that run init() over a storage without a fresh
\* envelope may both send requests; each ends with items equal to the
\* payload of its own successful attempt, or to the data of a complete
\* envelope it read; the storage holds at every moment nothing or one
\* complete envelope written by one successful attempt, the last write
\* winning.
C17_RaceKeepsEnvelopeWhole ==
    /\ StorageWhole
    /\ (pc \in {"fetched", "done"} /\ log.failures < 3) =>
          \/ (log.succeededAt >= 0 /\ items = log.payload)
          \/ (log.requests = 0 /\ peer.stored /\ items = peer.payload)
    /\ peer.pc = "fetched" =>
          \/ (peer.succeededAt >= 0 /\ peer.items = peer.payload)
          \/ (peer.requests = 0 /\ log.stored /\ peer.items = log.payload)

C17_Witness ==
    /\ pc = "done" /\ peer.pc = "fetched"
    /\ log.requests = 2 /\ peer.requests = 1
    /\ items = <<1, 2>> /\ peer.items = <<3>>
    /\ log.stored /\ peer.stored
    /\ log.succeededAt > peer.succeededAt
    /\ storage = EnvelopeOf(<<1, 2>>, log.succeededAt)

(***************************************************************************)
(* Further claims about the controls (specification SpecView)              *)
(***************************************************************************)
\* C18: onSortChange with the empty or an unknown criterion leaves the
\* order of filteredItems as it was: "none" after a sort keeps the sorted
\* order and does not bring the fetch order back.
C18_DefaultSortKeepsOrder ==
    [][ (last'.op = "sort"
         /\ last'.by \notin {"date", "reading_time", "category"}) =>
            filteredItems' = filteredItems ]_vars

C18_Witness ==
    /\ last.op = "sort" /\ last.by = ""
    /\ sortValue = ""
    /\ items = <<1, 2, 3, 4>>
    /\ filteredItems = <<4, 1, 2, 3>>

(***************************************************************************)
(* Claims about DragDrop (specification SpecDrag)                          *)
(***************************************************************************)
\* After destroy(), and until init() is called again, the state is the
\* idle one and no step changes it or moves an item.
DestroyedIsInert ==
    /\ dragDrop'.lifecycle = "destroyed" => dragDrop'.state = Idle
    /\ (dragDrop.lifecycle = "destroyed"
        /\ dragDrop'.lifecycle = "destroyed") =>
          /\ dragDrop'.state = dragDrop.state
          /\ dragDrop'.parent = dragDrop.parent

\* C19 as claimed: after destroy() returns, whatever calls of init(), also
\* repeated ones, events and calls of destroy() came before, no dragstart,
\* dragend, pointerdown, pointerup or drop event changes the drag state or
\* moves an item, and the state is the idle one.
C19_AsClaimed == [][DestroyedIsInert]_vars

\* C19 as the code has it: the same, as long as init() was never called
\* while the handlers of an earlier init() were still bound.
C19_InertAfterSingleInit == [][~dragDrop'.twice => DestroyedIsInert]_vars

C19_Witness ==
    /\ dragDrop.lifecycle = "destroyed"
    /\ ~dragDrop.twice
    /\ dragDrop.inits = 2
    /\ dragDrop.event.type = "destroy"
    /\ dragDrop.parent["b"] = "z2"
    /\ "b" \in dragDrop.dragging
    /\ dragDrop.state = Idle

\* The parents are those of before, but for the item, which lies in the
\* zone.
MovedTo(item, zone) ==
    /\ dragDrop'.parent[item] = zone
    /\ \A other \in Items \ {item} :
          dragDrop'.parent[other] = dragDrop.parent[other]

\* Every item lies in one place: a zone, or outside every zone.
OnePlaceEach == dragDrop.parent \in [Items -> Zones \cup {Body}]

\* A drop event on a zone while an item is the current one.
DropsItem ==
    dragDrop'.event.type = "drop" /\ dragDrop.state.currentItem # None

\* A pointerup event on an item over a zone during a drag.
ReleasesOverZone ==
    /\ dragDrop'.event.type = "pointerup"
    /\ dragDrop'.event.over \in Zones
    /\ dragDrop.state.isDragging

\* A drop or a pointerup while nothing is dragged.
DropsNothing ==
    \/ (dragDrop'.event.type = "drop" /\ dragDrop.state.currentItem = None)
    \/ (dragDrop'.event.type = "pointerup" /\ ~dragDrop.state.isDragging)

AcquisitionFailed == log.failures = maxAttempts

\* fetchData() returned: it adopted the cache or the payload of a request.
AcquisitionSucceeded == log.requests = 0 \/ log.succeededAt >= 0

\* No handler of a control has run and no debounce timer was started.
NoHandlerRan == last.op = "none" /\ timers = {} /\ inputAt = -1

\* C21: the listeners are attached only once fetchData() has succeeded and
\* init() has gone on; as long as they are not attached, that is while the
\* requests, the retries and the backoff delays run, no sort, filter or
\* search handler runs whatever the user does with the controls; when the
\* acquisition fails they are never attached and filteredItems stays empty.
C21_ListenersAfterAcquisition ==
    /\ listening => pc = "done" /\ AcquisitionSucceeded /\ ~AcquisitionFailed
    /\ ~listening => NoHandlerRan
    /\ pc \in {"new", "fetch", "json", "backoff", "threw"} => ~listening
    /\ AcquisitionFailed => ~listening /\ filteredItems = <<>>

C21_Witness ==
    /\ AcquisitionFailed
    /\ pc = "done"
    /\ sortValue = "title"
    /\ filterValue \in EarlyFilters
    /\ searchValue \in EarlySearches
    /\ filteredItems = <<>>
    /\ NoHandlerRan

(***************************************************************************)
(* Claims about the adoption of a response (specification Spec)            *)
(***************************************************************************)
\* A step that leaves items, filteredItems and the cache as they were.
NoAdoption ==
    items' = items /\ filteredItems' = filteredItems /\ storage' = storage

\* A response, or the body of one, arrives.
Answered == pc \in {"fetch", "json"} /\ pc' # pc

\* The response has a success status: its body is read next.
StatusOk == pc = "fetch" /\ pc' = "json" /\ NoAdoption /\ log' = log

\* An array payload of a response with a success status is adopted, and
\* fetchData() returns.
ArrayAdopted ==
    /\ pc = "json" /\ pc' = "fetched"
    /\ items' = log'.payload /\ filteredItems' = log'.payload
    /\ storage' \in {storage, JSONStringify(log'.payload, Num(now))}
    /\ log'.failures = log.failures

\* The cache is adopted and left as it was.
CacheAdopted ==
    /\ pc = "new" /\ pc' = "fetched"
    /\ FreshEnvelope(storage, now)
    /\ items' = storage.data /\ filteredItems' = storage.data
    /\ storage' = storage

\* One failed attempt: a status that is no success or a transport error at
\* the response, a payload that is no array or no JSON at the body.
OneFailedAttempt ==
    /\ log'.failures = log.failures + 1
    /\ log'.requests = log.requests
    /\ pc' \in {"backoff", "threw"}
    /\ NoAdoption
    /\ pc = "fetch" => log'.failure \in {NotOkError} \cup TransportErrors
    /\ pc = "json" => log'.failure \in {NotArrayError} \cup JsonErrors

\* C22: a response is adopted only when it has a success status and an
\* array payload; a non-success status, a non-array payload and a transport
\* error each count as one failed attempt and change neither items nor
\* filteredItems nor the cache; once an attempt has succeeded or the cache
\* was adopted, no further request is sent.
C22_AdoptsOnlyArrayOfOkResponse ==
    [][ /\ Answered => StatusOk \/ ArrayAdopted \/ OneFailedAttempt
        /\ ~NoAdoption => ArrayAdopted \/ CacheAdopted
        /\ (pc \in {"fetched", "done"} /\ AcquisitionSucceeded) =>
              log'.requests = log.requests
        /\ log'.requests <= maxAttempts ]_vars

C22_Witness ==
    /\ pc = "done"
    /\ log.failures = 2
    /\ log.failure = NotArrayError
    /\ log.requests = 3
    /\ log.succeededAt >= 0
    /\ items = log.payload /\ items # <<>>
    /\ storage = JSONStringify(items, Num(log.succeededAt))

(***************************************************************************)
(* Claims about the frame of the handlers (specification SpecView)         *)
(***************************************************************************)
\* C23: once fetchData() has returned, items holds the adopted payload, and
\* no sort, filter or search changes its entries or their order.
C23_ViewLeavesItems ==
    [][ /\ pc' = "done" => items' = log'.payload
        /\ pc \in {"fetched", "done"} => items' = items ]_vars

C23_Witness ==
    /\ pc = "done"
    /\ last.op = "sort"
    /\ items = <<1, 2, 3, 4>>
    /\ Len(filteredItems) = Len(items)
    /\ filteredItems # items
    /\ filterValue = <<>>
    /\ searchValue # <<>>

(***************************************************************************)
(* Claims about the writes of the cache (specification SpecReread)         *)
(***************************************************************************)
\* A fetchData() adopts the envelope; one finds no usable envelope and
\* sends its first request; one gives up after its last attempt.
CacheHitStep ==
    \/ (pc = "new" /\ pc' = "fetched")
    \/ (peer.pc = "new" /\ peer'.pc = "fetched")

CacheMissStep ==
    \/ (pc = "new" /\ pc' = "fetch")
    \/ (peer.pc = "new" /\ peer'.pc = "fetch")

GivesUp ==
    \/ (pc # "threw" /\ pc' = "threw")
    \/ (peer.pc # "threw" /\ peer'.pc = "threw")

\* The envelope of an array payload that an attempt received just now.
WrittenOnSuccess ==
    \/ /\ pc = "json" /\ log'.succeededAt = now
       /\ storage' = EnvelopeOf(log'.payload, now)
    \/ /\ peer.pc = "json" /\ peer'.succeededAt = now
       /\ storage' = EnvelopeOf(peer'.payload, now)

\* C24: the cache is written only when a network attempt has succeeded; a
\* hit leaves storage, timestamp included, as it was, so an envelope is
\* adopted only less than 10 minutes after the fetch that wrote it and is
\* passed over from then on, however often it was read; a fetchData() that
\* gives up leaves the storage as it was.
C24_WritesOnlyOnSuccess ==
    [][ /\ storage' # storage => WrittenOnSuccess
        /\ CacheHitStep =>
              /\ storage' = storage
              /\ cache.writtenAt >= 0 => now - cache.writtenAt < cacheTtlMs
        /\ (CacheMissStep /\ cache.writtenAt >= 0) =>
              now - cache.writtenAt >= cacheTtlMs
        /\ GivesUp => storage' = storage ]_vars

C24_Witness ==
    /\ cache.writtenAt >= 0
    /\ cache.reads >= 2
    /\ now - cache.writtenAt = cacheTtlMs
    /\ peer.pc = "fetch" /\ peer.requests = 1
    /\ storage.timestamp = Num(cache.writtenAt)

(***************************************************************************)
(* Claims about the drag marker (specification SpecDrag)                   *)
(***************************************************************************)
\* init() was called once, and destroy() not since.
InitialisedOnce == dragDrop.lifecycle = "initialised" /\ dragDrop.inits = 1

\* C25 as claimed: after any interleaving of dragstart, dragend,
\* pointerdown and pointerup events on the items, an item has the class
\* "dragging" only if it is the current item, and no item has it while
\* state.isDragging is false.
C25_AsClaimed ==
    InitialisedOnce =>
      /\ \A item \in dragDrop.dragging : dragDrop.state.currentItem = item
      /\ ~dragDrop.state.isDragging => dragDrop.dragging = {}

\* C25 as the code has it: during a drag the current item has the class;
\* other items may have it as well, and items may keep it after the drag.
C25_CurrentItemMarked ==
    dragDrop.state.isDragging =>
      dragDrop.state.currentItem \in dragDrop.dragging

C25_Witness ==
    /\ InitialisedOnce
    /\ dragDrop.event = Event("pointerdown", "b", None)
    /\ dragDrop.state.isDragging
    /\ dragDrop.state.currentItem = "b"
    /\ dragDrop.dragging = {"a", "b"}

(***************************************************************************)
(* Claims about the navigation menu (specification SpecNav)                *)
(***************************************************************************)
\* The toggle says "true" exactly when the nav list is open.
Synced == (nav.aria = "true") <=> nav.open

MenuClosed == ~nav.open /\ nav.aria # "true"

EscapePressed == nav.event.type = "keydown" /\ nav.event.on = "Escape"

ClickedOutside == nav.event.type = "click" /\ nav.event.on = "outside"

LinkClicked == nav.event.type = "link"

\* The link that was clicked lies in the nav list, and its href names no
\* element of the document.
DeadLinkInList ==
    /\ LinkClicked
    /\ Place(nav.event.on) = "list"
    /\ ~nav.target[nav.event.on]

\* C26 as claimed: after any sequence of toggles, clicks, key presses,
\* resizes and link clicks on a menu that started closed, aria-expanded is
\* "true" exactly when the list is open, and the menu is closed after
\* Escape, after a click on an anchor link, and after a click outside the
\* list and the toggle.
C26_AsClaimed ==
    /\ Synced
    /\ (EscapePressed \/ ClickedOutside \/ LinkClicked) => MenuClosed

\* C26 as amended: the same, but a click on a link of the list whose href
\* names no element leaves the menu as it was.
C26_MenuStateInSync ==
    /\ Synced
    /\ (EscapePressed \/ ClickedOutside) => MenuClosed
    /\ (LinkClicked /\ ~DeadLinkInList) => MenuClosed
    /\ DeadLinkInList => nav.open = nav.event.was

C26_Witness ==
    /\ nav.event = NavEvent("link", "inner", TRUE)
    /\ nav.target["inner"]
    /\ MenuClosed
    /\ nav.aria = "false"
    /\ nav.isScrolling

====
